---------------------------- MODULE Spec2Model ----------------------------
(***************************************************************************)
(* Model of wp-mcp-shared: the CacheManager of src/utils/cache.js (a thin  *)
(* wrapper around a node-cache store) and the cache-aside HTTP client      *)
(* WordPressRestClient of src/unnamed/part_002.                            *)
(*                                                                         *)
(* JavaScript strings are sequences of one-character strings, so that      *)
(* String.prototype.includes, String.prototype.split and the template      *)
(* literal that builds a cache key are computed, not assumed.              *)
(* Time (Date.now()) is counted in seconds, the unit of a TTL.             *)
(* node-cache is a dependency, not part of the repository: its methods are *)
(* modelled as node-cache 5.x documents and implements them.               *)
(***************************************************************************)
EXTENDS Integers, Sequences, FiniteSets, TLC

VARIABLES
    enabled,    \* CacheManager.enabled          (cache.js:15)
    CACHE_TTL,  \* module constant CACHE_TTL     (cache.js:5), read from the environment
    data,       \* NodeCache's key -> {v, t} map (cache.js:9), t = 0 means "no expiry"
    stats,      \* NodeCache's counters returned by getStats (cache.js:72)
    now,        \* Date.now(), in seconds
    lastOp,     \* the CacheManager call made by the latest step: name, arguments, return value
    nGet,       \* number of CacheManager.get calls made so far
    nRet,       \* number of those calls that returned a value (not undefined)
    lastSet,    \* per key held by the store: the time and TTL of the set that stored it
    pc,         \* per client call slot: "idle", or the HTTP request it awaits
    req,        \* per client call slot: the arguments of the call in flight
    lastCall,   \* the client call advanced by the latest step, with what it observed
    server,     \* the WordPress site: the version of its posts collection
    wire,       \* per client call slot: the HTTP exchange behind the awaited request
    acked,      \* the highest posts version whose write call has returned to its caller
    tools,      \* the tools given to createMcpServer   (part_000:25)
    toolCall,   \* the tool-call request being handled, and the handler's position
    invoked,    \* the call of tool.handler made for it, if any (part_000:63)
    reply       \* how the request handler's promise settled

cacheVars == <<enabled, CACHE_TTL, data, stats, now, lastOp, nGet, nRet, lastSet>>
clientVars == <<pc, req, lastCall>>
serverVars == <<server, wire, acked>>
mcpVars == <<tools, toolCall, invoked, reply>>
vars == <<enabled, CACHE_TTL, data, stats, now, lastOp, nGet, nRet, lastSet,
          pc, req, lastCall, server, wire, acked, tools, toolCall, invoked, reply>>

---------------------------------------------------------------------------
(* Bounds of the model: the last instant, the number of get calls, and the *)
(* last version of the site's posts collection                            *)

MaxTime == 2
MaxGets == 2
MaxVersion == 2

\* JavaScript's undefined, the "absent" result of a read.
Undefined == -1

\* Payloads stored in the cache: JavaScript numbers; 0 is falsy, the others truthy.
Values == {0, 1}

Truthy(v) == v # Undefined /\ v # 0

---------------------------------------------------------------------------
(* JavaScript string operations *)

\* String.prototype.includes (cache.js:63)
Includes(s, p) ==
    \E i \in 0..(Len(s) - Len(p)) : SubSeq(s, i + 1, i + Len(p)) = p

\* Index of the first occurrence of the character sep in s, 0 if none.
IndexOf(s, sep) ==
    IF \E i \in 1..Len(s) : s[i] = sep
    THEN CHOOSE i \in 1..Len(s) : s[i] = sep /\ \A j \in 1..(i - 1) : s[j] # sep
    ELSE 0

RECURSIVE Split(_, _)
\* String.prototype.split on a one-character separator (part_002:99)
Split(s, sep) ==
    LET i == IndexOf(s, sep) IN
    IF i = 0 THEN <<s>>
    ELSE <<SubSeq(s, 1, i - 1)>> \o Split(SubSeq(s, i + 1, Len(s)), sep)

---------------------------------------------------------------------------
(* The node-cache store behind CacheManager (new NodeCache({stdTTL,         *)
(* checkperiod, useClones: false}), cache.js:9-13).  Each method is an     *)
(* operator on the current store giving its return value and the store and *)
(* counters it leaves: [ret, data, stats].                                 *)

Keys == { <<"a", "b">>, <<"b", "a">> }

Patterns == { <<>>, <<"a">>, <<"a", "b">>, <<"b", "a">>, <<"c">>, <<"a", "b", "a">> }

\* TTLs passed to set, in seconds: 0 (node-cache: unlimited) and 1.
Ttls == {0, 1}

\* The store d without the keys ks.
Without(d, ks) == [k \in (DOMAIN d) \ ks |-> d[k]]

\* The store d with key holding entry e.
With(d, key, e) == [k \in (DOMAIN d) \cup {key} |-> IF k = key THEN e ELSE d[k]]

\* Variant: an entry already dead at the instant of its timestamp.
ExpiredInclusive(e, t) == e.t # 0 /\ e.t <= t

\* node-cache's _check: an entry is dead when its timestamp is not 0 and is
\* in the past (data.t !== 0 && data.t < Date.now()).
Expired(e, t) == e.t # 0 /\ e.t < t

\* node-cache's _wrap: the entry stored for a value; a TTL of 0 gives the
\* timestamp 0, which never expires.
Wrap(value, ttl, t) == [v |-> value, t |-> IF ttl = 0 THEN 0 ELSE t + ttl]

\* Variant: a get that counts every lookup as a hit.
NodeGetCountingHitsOnly(key) ==
    IF key \in DOMAIN data /\ ~Expired(data[key], now)
    THEN [ret |-> data[key].v, data |-> data, stats |-> [stats EXCEPT !.hits = @ + 1]]
    ELSE [ret |-> Undefined, data |-> Without(data, {key}),
          stats |-> [stats EXCEPT !.hits = @ + 1,
                                  !.keys = @ - Cardinality({key} \cap DOMAIN data)]]

\* this.cache.get(key) (cache.js:27): a live entry is a hit; otherwise a miss,
\* and an expired entry is deleted on the way (deleteOnExpire).
NodeGet(key) ==
    IF key \in DOMAIN data /\ ~Expired(data[key], now)
    THEN [ret |-> data[key].v, data |-> data, stats |-> [stats EXCEPT !.hits = @ + 1]]
    ELSE [ret |-> Undefined, data |-> Without(data, {key}),
          stats |-> [stats EXCEPT !.misses = @ + 1,
                                  !.keys = @ - Cardinality({key} \cap DOMAIN data)]]

\* Variant: a set that keeps the entry a key already has.
NodeSetIfAbsent(key, value, ttl) ==
    [ret |-> TRUE,
     data |-> IF key \in DOMAIN data THEN data ELSE With(data, key, Wrap(value, ttl, now)),
     stats |-> IF key \in DOMAIN data THEN stats ELSE [stats EXCEPT !.keys = @ + 1]]

\* this.cache.set(key, value, ttl) (cache.js:39): stores or overwrites, returns true.
NodeSet(key, value, ttl) ==
    [ret |-> TRUE,
     data |-> With(data, key, Wrap(value, ttl, now)),
     stats |-> IF key \in DOMAIN data THEN stats ELSE [stats EXCEPT !.keys = @ + 1]]

\* Variant: a del that returns how many keys it was asked to delete.
NodeDelCountingRequests(keys) ==
    [ret |-> Cardinality(keys),
     data |-> Without(data, keys),
     stats |-> [stats EXCEPT !.keys = @ - Cardinality(keys \cap DOMAIN data)]]

\* this.cache.del(key | keys) (cache.js:47, 66): deletes the keys that exist,
\* expired or not, and returns how many it deleted.
NodeDel(keys) ==
    [ret |-> Cardinality(keys \cap DOMAIN data),
     data |-> Without(data, keys),
     stats |-> [stats EXCEPT !.keys = @ - Cardinality(keys \cap DOMAIN data)]]

\* Variant: a flush that removes only the expired entries.
NodeFlushExpiredOnly ==
    [ret |-> Undefined,
     data |-> Without(data, { k \in DOMAIN data : Expired(data[k], now) }),
     stats |-> [hits |-> 0, misses |-> 0, keys |-> 0]]

\* this.cache.flushAll() (cache.js:55): empties the store and resets the counters.
NodeFlushAll ==
    [ret |-> Undefined, data |-> <<>>, stats |-> [hits |-> 0, misses |-> 0, keys |-> 0]]

\* this.cache.keys() (cache.js:62): every stored key, expired ones included.
NodeKeys == DOMAIN data

\* this.cache.getStats() (cache.js:72)
NodeGetStats == stats

NoOp == [op |-> "none", key |-> <<>>, val |-> Undefined, res |-> Undefined, removed |-> 0]

\* A CacheManager call: its name, key or pattern, value argument, return
\* value, and the number of entries it removed from the store.
Op(name, key, val, res, removed) ==
    [op |-> name, key |-> key, val |-> val, res |-> res, removed |-> removed]

\* No client call in flight in a slot; no client call advanced by the latest step.
NoReq == [endpoint |-> <<>>, params |-> <<>>, useCache |-> FALSE, raced |-> Undefined]

\* An axios rejection: error.response (the status and the body's message and
\* error members, "" for a member that is missing or empty), whether
\* error.request is set, and error.message.  NoResponse is an unset
\* error.response, NoFailure the absence of any rejection.
NoResponse == [status |-> 0, data |-> [message |-> "", error |-> ""]]

AxiosError(response, request, message) ==
    [response |-> response, request |-> request, message |-> message]

NoFailure == AxiosError(NoResponse, FALSE, "")

\* An Error whose message is `${prefix} (${status}): ${detail}`, the parts
\* that a message lacks being 0 and ""; NoError is no Error thrown.
NewError(prefix, status, detail) ==
    [name |-> "Error", prefix |-> prefix, status |-> status, detail |-> detail]

NoError == [name |-> "none", prefix |-> "", status |-> 0, detail |-> ""]

NoCall == [method |-> "none", endpoint |-> <<>>, key |-> <<>>,
           useCache |-> FALSE, entry |-> Undefined, http |-> FALSE,
           status |-> "none", value |-> Undefined, raced |-> Undefined,
           cause |-> NoFailure, err |-> NoError]

\* No HTTP exchange behind a slot.  An exchange is "sent" until the site has
\* handled the request and "served" from then until the response is delivered.
NoWire == [phase |-> "none", body |-> Undefined]

\* The time and TTL of the set that stored each key the store d holds.
Provenance(d) == [k \in DOMAIN d |-> lastSet[k]]

---------------------------------------------------------------------------
(* CacheManager (src/utils/cache.js) *)

\* The state a node-cache call r leaves, and the record of the call.
Leaves(r, name, key, val) ==
    /\ data' = r.data
    /\ stats' = r.stats
    /\ lastOp' = Op(name, key, val, r.ret,
                    Cardinality(DOMAIN data) - Cardinality((DOMAIN data) \cap DOMAIN r.data))

\* A call that returns res at once because caching is disabled.
Skips(name, key, val, res) ==
    /\ lastOp' = Op(name, key, val, res, 0)
    /\ UNCHANGED <<data, stats>>

\* CacheManager.get
cache_get(key) ==
    /\ IF ~enabled
       THEN Skips("get", key, Undefined, Undefined)
       ELSE Leaves(NodeGet(key), "get", key, Undefined)
    /\ nGet' = nGet + 1
    /\ nRet' = IF lastOp'.res # Undefined THEN nRet + 1 ELSE nRet
    /\ lastSet' = Provenance(data')
    /\ UNCHANGED <<enabled, CACHE_TTL, now>>

\* Variant: a set that does not look at this.enabled.
cache_set_unguarded(key, value, ttl) ==
    /\ Leaves(NodeSet(key, value, ttl), "set", key, value)
    /\ lastSet' = With(lastSet, key, [at |-> now, ttl |-> ttl])
    /\ UNCHANGED <<enabled, CACHE_TTL, now, nGet, nRet>>

\* CacheManager.set
cache_set(key, value, ttl) ==
    /\ IF ~enabled
       THEN /\ Skips("set", key, value, FALSE)
            /\ UNCHANGED lastSet
       ELSE /\ Leaves(NodeSet(key, value, ttl), "set", key, value)
            /\ lastSet' = With(lastSet, key, [at |-> now, ttl |-> ttl])
    /\ UNCHANGED <<enabled, CACHE_TTL, now, nGet, nRet>>

\* CacheManager.del
cache_del(key) ==
    /\ IF ~enabled
       THEN Skips("del", key, Undefined, 0)
       ELSE Leaves(NodeDel({key}), "del", key, Undefined)
    /\ lastSet' = Provenance(data')
    /\ UNCHANGED <<enabled, CACHE_TTL, now, nGet, nRet>>

\* CacheManager.flush
cache_flush ==
    /\ IF ~enabled
       THEN Skips("flush", <<>>, Undefined, Undefined)
       ELSE Leaves(NodeFlushAll, "flush", <<>>, Undefined)
    /\ lastSet' = Provenance(data')
    /\ UNCHANGED <<enabled, CACHE_TTL, now, nGet, nRet>>

\* Variant: keys.filter(key => key.startsWith(pattern)).
matchingKeysByPrefix(pattern) ==
    { k \in NodeKeys : Len(pattern) <= Len(k) /\ SubSeq(k, 1, Len(pattern)) = pattern }

\* keys.filter(key => key.includes(pattern)) (cache.js:62-63)
matchingKeys(pattern) == { k \in NodeKeys : Includes(k, pattern) }

\* CacheManager.invalidatePattern
cache_invalidatePattern(pattern) ==
    /\ IF ~enabled
       THEN Skips("invalidatePattern", pattern, Undefined, Undefined)
       ELSE IF matchingKeys(pattern) # {}
            THEN Leaves([NodeDel(matchingKeys(pattern)) EXCEPT !.ret = Undefined],
                        "invalidatePattern", pattern, Undefined)
            ELSE Skips("invalidatePattern", pattern, Undefined, Undefined)
    /\ lastSet' = Provenance(data')
    /\ UNCHANGED <<enabled, CACHE_TTL, now, nGet, nRet>>

\* CacheManager.getStats
cache_getStats == NodeGetStats

\* Date.now() advances.
Tick ==
    /\ now < MaxTime
    /\ now' = now + 1
    /\ lastOp' = NoOp
    /\ lastCall' = NoCall
    /\ UNCHANGED <<enabled, CACHE_TTL, data, stats, nGet, nRet, lastSet, pc, req>>
    /\ UNCHANGED <<serverVars, mcpVars>>

\* node-cache's periodic sweep (checkperiod: 120) deletes the expired entries.
CheckData ==
    LET old == { k \in DOMAIN data : Expired(data[k], now) } IN
    /\ old # {}
    /\ data' = Without(data, old)
    /\ stats' = [stats EXCEPT !.keys = @ - Cardinality(old)]
    /\ lastSet' = Provenance(data')
    /\ lastOp' = NoOp
    /\ lastCall' = NoCall
    /\ UNCHANGED <<enabled, CACHE_TTL, now, nGet, nRet, pc, req>>
    /\ UNCHANGED <<serverVars, mcpVars>>

---------------------------------------------------------------------------
(* WordPressRestClient (src/unnamed/part_002) *)

Procs == {1, 2}

\* Endpoints the client's own methods pass to get / post / put / delete.
PostsEndpoint == <<"/", "w", "p", "/", "v", "2", "/", "p", "o", "s", "t", "s">>
PostEndpoint == <<"/", "w", "p", "/", "v", "2", "/", "p", "o", "s", "t", "s", "/", "4", "2">>
PagesEndpoint == <<"/", "w", "p", "/", "v", "2", "/", "p", "a", "g", "e", "s">>
PageEndpoint == <<"/", "w", "p", "/", "v", "2", "/", "p", "a", "g", "e", "s", "/", "7">>

\* Query parameters: a sequence of name / one-digit value pairs; <<>> is {}.
NoParams == <<>>
PageParams == << [name |-> <<"p", "a", "g", "e">>, value |-> 2] >>

\* Calls of get made in the model: getPosts(), getPosts({page: 2}), getPages().
Reads == { [endpoint |-> PostsEndpoint, params |-> NoParams],
           [endpoint |-> PostsEndpoint, params |-> PageParams],
           [endpoint |-> PagesEndpoint, params |-> NoParams] }

Digit == <<"0", "1", "2", "3", "4", "5", "6", "7", "8", "9">>

RECURSIVE Members(_)
\* The "name":value members of an object, joined by commas.
Members(params) ==
    IF params = <<>> THEN <<>>
    ELSE LET m == <<"\"">> \o params[1].name \o <<"\"", ":", Digit[params[1].value + 1]>> IN
         IF Len(params) = 1 THEN m ELSE m \o <<",">> \o Members(Tail(params))

\* JSON.stringify of a params object (part_002:72)
JSONstringify(params) == <<"{">> \o Members(params) \o <<"}">>

\* `GET:${endpoint}:${JSON.stringify(params)}` (part_002:72)
cacheKey(endpoint, params) ==
    <<"G", "E", "T", ":">> \o endpoint \o <<":">> \o JSONstringify(params)

\* endpoint.split('/')[0] (part_002:99, 112, 125)
invalidationPattern(endpoint) == Split(endpoint, "/")[1]

\* A new call takes the lowest free slot: slots only name the calls in flight.
FreeSlot(p) == pc[p] = "idle" /\ \A q \in Procs : q < p => pc[q] # "idle"

WriteMethods == {"post", "put", "delete"}

\* The shapes of a rejected axios request that handleError tells apart: an
\* answer with an error status, a request that got no answer, and a request
\* that could not be set up.
ErrorShapes ==
    { AxiosError([status |-> 404, data |-> [message |-> "Not Found", error |-> ""]],
                 TRUE, "Request failed with status code 404"),
      AxiosError(NoResponse, TRUE, "timeout of 30000ms exceeded"),
      AxiosError(NoResponse, FALSE, "Invalid URL") }

\* Rejections whose answer has a body without message, and without either member.
AxiosErrors ==
    ErrorShapes \cup
    { AxiosError([status |-> 500, data |-> [message |-> "", error |-> "Server Error"]],
                 TRUE, "Request failed with status code 500"),
      AxiosError([status |-> 502, data |-> [message |-> "", error |-> ""]],
                 TRUE, "Request failed with status code 502") }

\* JavaScript's a || b on strings: the empty string is falsy.
Or(a, b) == IF a # "" THEN a ELSE b

\* WordPressRestClient.handleError
handleError(error) ==
    IF error.response # NoResponse
    THEN LET status == error.response.status
             body == error.response.data
             message == Or(Or(body.message, body.error), error.message)
         IN NewError("WordPress API Error", status, message)
    ELSE IF error.request
    THEN NewError("No response from WordPress API. Check your connection and URL.", 0, "")
    ELSE NewError("Request failed", 0, error.message)

\* WordPressRestClient.get, up to its await: the cache lookup and the request.
client_get_call(p, endpoint, params, useCache) ==
    LET key == cacheKey(endpoint, params)
        entry == IF key \in DOMAIN data /\ ~Expired(data[key], now)
                 THEN data[key].v ELSE Undefined
        call == [NoCall EXCEPT !.method = "get", !.endpoint = endpoint,
                               !.key = key, !.useCache = useCache, !.entry = entry]
        request == /\ pc' = [pc EXCEPT ![p] = "get"]
                   /\ req' = [req EXCEPT ![p] = [endpoint |-> endpoint, params |-> params,
                                                 useCache |-> useCache, raced |-> Undefined]]
                   /\ lastCall' = [call EXCEPT !.http = TRUE, !.status = "pending"]
    IN
    /\ FreeSlot(p)
    /\ IF useCache
       THEN /\ nGet < MaxGets
            /\ cache_get(key)
            /\ LET cached == lastOp'.res IN
               IF Truthy(cached)
               THEN /\ lastCall' = [call EXCEPT !.status = "returned", !.value = cached]
                    /\ UNCHANGED <<pc, req>>
               ELSE request
       ELSE /\ request
            /\ UNCHANGED <<enabled, CACHE_TTL, data, stats, now, lastOp, nGet, nRet, lastSet>>

\* WordPressRestClient.get, after its await resolved with response.data = responseData.
client_get_resolve(p, responseData) ==
    LET r == req[p]
        key == cacheKey(r.endpoint, r.params)
    IN
    /\ pc[p] = "get"
    /\ IF r.useCache
       THEN cache_set(key, responseData, CACHE_TTL)
       ELSE UNCHANGED <<enabled, CACHE_TTL, data, stats, now, lastOp, nGet, nRet, lastSet>>
    /\ pc' = [pc EXCEPT ![p] = "idle"]
    /\ req' = [q \in Procs |->
                 IF q = p THEN NoReq
                 ELSE IF /\ pc[q] = "get" /\ r.useCache /\ req[q].useCache /\ enabled
                         /\ cacheKey(req[q].endpoint, req[q].params) = key
                      THEN [req[q] EXCEPT !.raced = responseData]
                      ELSE req[q]]
    /\ lastCall' = [NoCall EXCEPT !.method = "get", !.endpoint = r.endpoint,
                                  !.key = key, !.useCache = r.useCache, !.http = TRUE,
                                  !.status = "returned", !.value = responseData,
                                  !.raced = r.raced]

\* Variant: the invalidation of post / put / delete in a finally block, so
\* that a failed write invalidates too.
client_reject_invalidating(p, error) ==
    /\ pc[p] # "idle"
    /\ pc' = [pc EXCEPT ![p] = "idle"]
    /\ req' = [req EXCEPT ![p] = NoReq]
    /\ lastCall' = [NoCall EXCEPT !.method = pc[p], !.endpoint = req[p].endpoint,
                                  !.useCache = req[p].useCache, !.http = TRUE,
                                  !.status = "threw", !.cause = error,
                                  !.err = handleError(error)]
    /\ IF pc[p] \in WriteMethods
       THEN cache_invalidatePattern(invalidationPattern(req[p].endpoint))
       ELSE /\ lastOp' = NoOp
            /\ UNCHANGED <<enabled, CACHE_TTL, data, stats, now, nGet, nRet, lastSet>>

\* The catch block of get / post / put / delete: throw this.handleError(error).
client_reject(p, error) ==
    /\ pc[p] # "idle"
    /\ pc' = [pc EXCEPT ![p] = "idle"]
    /\ req' = [req EXCEPT ![p] = NoReq]
    /\ lastCall' = [NoCall EXCEPT !.method = pc[p], !.endpoint = req[p].endpoint,
                                  !.useCache = req[p].useCache, !.http = TRUE,
                                  !.status = "threw", !.cause = error,
                                  !.err = handleError(error)]
    /\ lastOp' = NoOp
    /\ UNCHANGED <<enabled, CACHE_TTL, data, stats, now, nGet, nRet, lastSet>>

\* post / put / delete up to the await: the request is sent.
client_write_call(p, method, endpoint) ==
    /\ FreeSlot(p)
    /\ pc' = [pc EXCEPT ![p] = method]
    /\ req' = [req EXCEPT ![p] = [NoReq EXCEPT !.endpoint = endpoint]]
    /\ lastCall' = [NoCall EXCEPT !.method = method, !.endpoint = endpoint,
                                  !.http = TRUE, !.status = "pending"]
    /\ lastOp' = NoOp
    /\ UNCHANGED <<enabled, CACHE_TTL, data, stats, now, nGet, nRet, lastSet>>

\* post / put / delete after the await resolved: invalidate, return response.data.
client_write_resolve(p, method, responseData) ==
    /\ pc[p] = method
    /\ cache_invalidatePattern(invalidationPattern(req[p].endpoint))
    /\ pc' = [pc EXCEPT ![p] = "idle"]
    /\ req' = [req EXCEPT ![p] = NoReq]
    /\ lastCall' = [NoCall EXCEPT !.method = method,
                                  !.endpoint = req[p].endpoint, !.http = TRUE,
                                  !.status = "returned", !.value = responseData]

\* WordPressRestClient.post
client_post_call(p, endpoint) == client_write_call(p, "post", endpoint)
client_post_resolve(p, responseData) == client_write_resolve(p, "post", responseData)

\* WordPressRestClient.put
client_put_call(p, endpoint) == client_write_call(p, "put", endpoint)
client_put_resolve(p, responseData) == client_write_resolve(p, "put", responseData)

\* WordPressRestClient.delete
client_delete_call(p, endpoint) == client_write_call(p, "delete", endpoint)
client_delete_resolve(p, responseData) == client_write_resolve(p, "delete", responseData)

---------------------------------------------------------------------------
(* createMcpServer (src/unnamed/part_000): the handler it installs for     *)
(* tool-call requests.  An arguments object is a function from member      *)
(* names to values; a message is a sequence of strings, its pieces in      *)
(* order; a text is the sequence of tokens of the JSON it holds.           *)

\* {}
EmptyObject == [k \in {} |-> 0]

\* A zod object schema: the members it requires and those it allows besides.
ZodObject(required, optional) == [required |-> required, optional |-> optional]

\* An entry of tools: { name, inputSchema, handler }; the handler is the
\* environment's, and is known by the entry's position in the list.
Tool(name, inputSchema) == [name |-> name, inputSchema |-> inputSchema]

\* Tool lists given to createMcpServer; in the second two tools share a
\* name, the third has a single tool.
ToolLists ==
    { << Tool("get_post", ZodObject({"id"}, {})),
         Tool("list_posts", ZodObject({}, {"page"})) >>,
      << Tool("get_post", ZodObject({"id"}, {})),
         Tool("get_post", ZodObject({}, {"page"})) >>,
      << Tool("list_posts", ZodObject({}, {"page"})) >> }

\* request.params.name and request.params.arguments of the requests made.
ToolNames == {"get_post", "list_posts", "delete_site"}

ToolArguments ==
    { EmptyObject,
      [k \in {"id"} |-> 1],
      [k \in {"id", "force"} |-> IF k = "id" THEN 1 ELSE 0],
      [k \in {"page"} |-> 2] }

\* What a tool's handler resolves with: a result, which may itself report an error.
ToolResults == { [isError |-> FALSE, text |-> <<"post 1">>],
                 [isError |-> TRUE, text |-> <<"no such post">>] }

\* A value thrown: an Error with a message, a string, or undefined (as from
\* Promise.reject() or throw undefined).  NoThrown: nothing was thrown.
Thrown(kind, message) == [kind |-> kind, message |-> message]

NoThrown == Thrown("none", <<>>)

\* What a tool's handler throws or rejects with.
Throwables == { Thrown("Error", <<"WordPress API Error">>),
                Thrown("string", <<>>),
                Thrown("undefined", <<>>) }

NoToolCall == [pc |-> "none", name |-> "", hasArgs |-> FALSE, args |-> EmptyObject,
               thrown |-> NoThrown]

NotInvoked == [called |-> FALSE, tool |-> 0, args |-> EmptyObject]

\* The promise of the request handler: pending (or no request), fulfilled
\* with a result, or rejected with a reason.
NoReply == [state |-> "none", isError |-> FALSE, text |-> <<>>]

\* tools.find(t => t.name === name): the position of the first tool of that
\* name, 0 for undefined.
find(name) ==
    IF \E i \in DOMAIN tools : tools[i].name = name
    THEN CHOOSE i \in DOMAIN tools :
            tools[i].name = name /\ \A j \in 1..(i - 1) : tools[j].name # name
    ELSE 0

\* inputSchema.parse(x) throws a ZodError when a required member is missing.
parseThrows(inputSchema, x) == ~(inputSchema.required \subseteq DOMAIN x)

\* inputSchema.parse(x): x without the members the schema does not name.
parse(inputSchema, x) ==
    [k \in (DOMAIN x) \cap (inputSchema.required \cup inputSchema.optional) |-> x[k]]

\* The ZodError thrown by parse.
ZodError == Thrown("Error", <<"invalid_type", "Required">>)

\* JSON.stringify({ error: error.message, tool: name }, null, 2): a member
\* whose value is undefined is left out.
JSONstringifyFailure(hasMessage, message, name) ==
    IF hasMessage
    THEN <<"{", "\"error\":">> \o message \o <<",", "\"tool\":", name, "}">>
    ELSE <<"{", "\"tool\":", name, "}">>

\* The catch block (part_000:66-79) entered with error: reading
\* error.message throws a TypeError when error is undefined, and gives
\* undefined when error is a string.
catch_block(error, name) ==
    IF error.kind = "undefined"
    THEN [state |-> "rejected", isError |-> FALSE, text |-> <<"TypeError">>]
    ELSE [state |-> "fulfilled", isError |-> TRUE,
          text |-> JSONstringifyFailure(error.kind = "Error", error.message, name)]

\* createMcpServer(name, version, tools)
createMcpServer(ts) ==
    /\ toolCall.pc = "none"
    /\ tools' = ts
    /\ toolCall' = [NoToolCall EXCEPT !.pc = "idle"]
    /\ UNCHANGED <<invoked, reply>>

\* The tool-call handler up to its await (part_000:47-63), for a request
\* naming a tool, with or without an arguments member.
call_tool(name, hasArgs, args) ==
    LET tool == find(name)
        input == IF hasArgs THEN args ELSE EmptyObject
        called == [NoToolCall EXCEPT !.name = name, !.hasArgs = hasArgs, !.args = args]
    IN
    /\ toolCall.pc \in {"idle", "settled"}
    /\ IF tool = 0
       THEN /\ toolCall' = [called EXCEPT !.pc = "settled"]
            /\ invoked' = NotInvoked
            /\ reply' = catch_block(Thrown("Error", <<"Unknown tool: ", name>>), name)
       ELSE IF parseThrows(tools[tool].inputSchema, input)
       THEN /\ toolCall' = [called EXCEPT !.pc = "settled"]
            /\ invoked' = NotInvoked
            /\ reply' = catch_block(ZodError, name)
       ELSE /\ toolCall' = [called EXCEPT !.pc = "awaiting"]
            /\ invoked' = [called |-> TRUE, tool |-> tool,
                           args |-> parse(tools[tool].inputSchema, input)]
            /\ reply' = NoReply
    /\ UNCHANGED tools

\* await tool.handler(validatedArgs) resolves: return result.
handler_returns(result) ==
    /\ toolCall.pc = "awaiting"
    /\ toolCall' = [toolCall EXCEPT !.pc = "settled"]
    /\ reply' = [state |-> "fulfilled", isError |-> result.isError, text |-> result.text]
    /\ UNCHANGED <<tools, invoked>>

\* await tool.handler(validatedArgs) throws: the catch block runs.
handler_throws(error) ==
    /\ toolCall.pc = "awaiting"
    /\ toolCall' = [toolCall EXCEPT !.pc = "settled", !.thrown = error]
    /\ reply' = catch_block(error, toolCall.name)
    /\ UNCHANGED <<tools, invoked>>

---------------------------------------------------------------------------
(* The cache manager used directly: any caller may call any method *)

Init ==
    /\ enabled \in BOOLEAN
    /\ CACHE_TTL \in Ttls
    /\ data = <<>>
    /\ stats = [hits |-> 0, misses |-> 0, keys |-> 0]
    /\ now = 0
    /\ lastOp = NoOp
    /\ nGet = 0
    /\ nRet = 0
    /\ lastSet = <<>>
    /\ pc = [p \in Procs |-> "idle"]
    /\ req = [p \in Procs |-> NoReq]
    /\ lastCall = NoCall
    /\ server = 1
    /\ wire = [p \in Procs |-> NoWire]
    /\ acked = 0
    /\ tools = <<>>
    /\ toolCall = NoToolCall
    /\ invoked = NotInvoked
    /\ reply = NoReply

Get == \E k \in Keys :
    nGet < MaxGets /\ cache_get(k) /\ UNCHANGED <<clientVars, serverVars, mcpVars>>

\* set(key, value): the TTL defaults to CACHE_TTL
SetDefault == \E k \in Keys, v \in Values :
    cache_set(k, v, CACHE_TTL) /\ UNCHANGED <<clientVars, serverVars, mcpVars>>

Set == \E k \in Keys, v \in Values, ttl \in Ttls :
    cache_set(k, v, ttl) /\ UNCHANGED <<clientVars, serverVars, mcpVars>>

Del == \E k \in Keys : cache_del(k) /\ UNCHANGED <<clientVars, serverVars, mcpVars>>

Flush == cache_flush /\ UNCHANGED <<clientVars, serverVars, mcpVars>>

InvalidatePattern == \E p \in Patterns :
    cache_invalidatePattern(p) /\ UNCHANGED <<clientVars, serverVars, mcpVars>>

Next == Get \/ SetDefault \/ Set \/ Del \/ Flush \/ InvalidatePattern \/ Tick \/ CheckData

Spec == Init /\ [][Next]_vars

---------------------------------------------------------------------------
(* The HTTP client used by concurrent callers; the server answers anything *)

\* Every method of the class calls get with the default useCache = true.
GetCall == \E p \in Procs, r \in Reads, useCache \in {TRUE} :
    client_get_call(p, r.endpoint, r.params, useCache) /\ UNCHANGED <<serverVars, mcpVars>>

GetResolve == \E p \in Procs, d \in Values : client_get_resolve(p, d) /\ UNCHANGED <<serverVars, mcpVars>>

Reject == \E p \in Procs, e \in ErrorShapes : client_reject(p, e) /\ UNCHANGED <<serverVars, mcpVars>>

\* createPost(data)
PostCall == \E p \in Procs : client_post_call(p, PostsEndpoint) /\ UNCHANGED <<serverVars, mcpVars>>

PostResolve == \E p \in Procs, d \in Values : client_post_resolve(p, d) /\ UNCHANGED <<serverVars, mcpVars>>

\* updatePost(42, data)
PutCall == \E p \in Procs : client_put_call(p, PostEndpoint) /\ UNCHANGED <<serverVars, mcpVars>>

PutResolve == \E p \in Procs, d \in Values : client_put_resolve(p, d) /\ UNCHANGED <<serverVars, mcpVars>>

\* deletePage(7)
DeleteCall == \E p \in Procs : client_delete_call(p, PageEndpoint) /\ UNCHANGED <<serverVars, mcpVars>>

DeleteResolve == \E p \in Procs, d \in Values : client_delete_resolve(p, d) /\ UNCHANGED <<serverVars, mcpVars>>

ClientNext ==
    \/ GetCall \/ GetResolve \/ Reject
    \/ PostCall \/ PostResolve \/ PutCall \/ PutResolve \/ DeleteCall \/ DeleteResolve
    \/ Tick \/ CheckData

ClientSpec == Init /\ [][ClientNext]_vars

---------------------------------------------------------------------------
(* The HTTP client against a WordPress site.  The site holds the posts     *)
(* collection, whose content is named by a version number: a read is      *)
(* answered with the version the site holds when it handles the request, a *)
(* write makes the next version and is answered with it.  A response is    *)
(* delivered, and the awaiting call resumed, at any later step: requests   *)
(* travel on separate connections, so responses arrive in any order.       *)
(* The calls are interleaved within one instant of the clock: what the     *)
(* passing of time does to the store is explored by the specifications     *)
(* above.                                                                  *)

\* getPosts(), getPosts({page: 2})
PostsReads == { r \in Reads : r.endpoint = PostsEndpoint }

\* createPost(data), updatePost(42, data), deletePost(42)
PostsWrites == { [method |-> "post", endpoint |-> PostsEndpoint],
                 [method |-> "put", endpoint |-> PostEndpoint],
                 [method |-> "delete", endpoint |-> PostEndpoint] }

\* The request of the call just made in slot p, if it made one, is on its way.
Sends(p) ==
    wire' = [wire EXCEPT ![p] = IF pc'[p] = "idle" THEN NoWire
                                ELSE [phase |-> "sent", body |-> Undefined]]

\* The writes on their way to the site.
WritesUnderway == { q \in Procs : pc[q] \in WriteMethods /\ wire[q].phase = "sent" }

SiteGetCall == \E p \in Procs, r \in PostsReads :
    /\ client_get_call(p, r.endpoint, r.params, TRUE)
    /\ Sends(p)
    /\ UNCHANGED <<server, acked, mcpVars>>

SiteWriteCall == \E p \in Procs, w \in PostsWrites :
    /\ server + Cardinality(WritesUnderway) < MaxVersion
    /\ client_write_call(p, w.method, w.endpoint)
    /\ Sends(p)
    /\ UNCHANGED <<server, acked, mcpVars>>

\* The site handles the request of slot p: a read is answered with the
\* collection as it is, a write is applied and answered with the new one.
SiteHandles == \E p \in Procs :
    /\ wire[p].phase = "sent"
    /\ server' = IF pc[p] \in WriteMethods THEN server + 1 ELSE server
    /\ wire' = [wire EXCEPT ![p] = [phase |-> "served", body |-> server']]
    /\ lastOp' = NoOp
    /\ lastCall' = NoCall
    /\ UNCHANGED <<enabled, CACHE_TTL, data, stats, now, nGet, nRet, lastSet>>
    /\ UNCHANGED <<pc, req, acked, mcpVars>>

\* The response of a read is delivered: await this.client.get(...) resolves.
SiteGetResolve == \E p \in Procs :
    /\ wire[p].phase = "served"
    /\ client_get_resolve(p, wire[p].body)
    /\ wire' = [wire EXCEPT ![p] = NoWire]
    /\ UNCHANGED <<server, acked, mcpVars>>

\* The response of a write is delivered: the call invalidates and returns.
SiteWriteResolve == \E p \in Procs :
    /\ wire[p].phase = "served"
    /\ pc[p] \in WriteMethods
    /\ client_write_resolve(p, pc[p], wire[p].body)
    /\ wire' = [wire EXCEPT ![p] = NoWire]
    /\ acked' = IF wire[p].body > acked THEN wire[p].body ELSE acked
    /\ UNCHANGED <<server, mcpVars>>

\* The request fails, before or after the site handled it.
SiteReject == \E p \in Procs, e \in AxiosErrors :
    /\ client_reject(p, e)
    /\ wire' = [wire EXCEPT ![p] = NoWire]
    /\ UNCHANGED <<server, acked, mcpVars>>

SiteNext ==
    \/ SiteGetCall \/ SiteWriteCall \/ SiteHandles
    \/ SiteGetResolve \/ SiteWriteResolve \/ SiteReject

SiteSpec == Init /\ [][SiteNext]_vars

---------------------------------------------------------------------------
(* An MCP server created over a list of tools, answering tool-call requests *)

CreateMcpServer == \E ts \in ToolLists :
    createMcpServer(ts) /\ UNCHANGED <<cacheVars, clientVars, serverVars>>

CallTool == \E name \in ToolNames, hasArgs \in BOOLEAN, args \in ToolArguments :
    /\ ~hasArgs => args = EmptyObject
    /\ call_tool(name, hasArgs, args)
    /\ UNCHANGED <<cacheVars, clientVars, serverVars>>

HandlerReturns == \E result \in ToolResults :
    handler_returns(result) /\ UNCHANGED <<cacheVars, clientVars, serverVars>>

HandlerThrows == \E error \in Throwables :
    handler_throws(error) /\ UNCHANGED <<cacheVars, clientVars, serverVars>>

ToolNext == CreateMcpServer \/ CallTool \/ HandlerReturns \/ HandlerThrows

ToolSpec == Init /\ [][ToolNext]_vars

---------------------------------------------------------------------------
(* Properties *)

\* What a caller can observe of key k: get(k) would return a value.
Retrievable(k) == k \in DOMAIN data /\ (data[k].t = 0 \/ data[k].t >= now)

\* p occurs in s as a run of consecutive characters.
IsSubstring(p, s) == \E i \in 1..(Len(s) + 1), j \in 0..Len(s) : SubSeq(s, i, j) = p

\* The resource family of an endpoint: the path segment that follows the
\* /wp/v2 namespace ("posts" for /wp/v2/posts and for /wp/v2/posts/42).
ResourceFamily(endpoint) == Split(endpoint, "/")[4]

\* C1: a successful post, put or delete on an endpoint leaves no cached read
\* of that endpoint's resource family retrievable, and leaves every cached
\* read of another resource family retrievable with the entry it had.
C1_WriteInvalidatesOnlyItsFamily ==
    [][ (enabled /\ lastCall'.method \in WriteMethods /\ lastCall'.status = "returned")
        => \A r \in Reads :
             LET k == cacheKey(r.endpoint, r.params) IN
             IF ResourceFamily(r.endpoint) = ResourceFamily(lastCall'.endpoint)
             THEN ~Retrievable(k)'
             ELSE Retrievable(k) => (Retrievable(k)' /\ data'[k] = data[k]) ]_vars

\* C2: with caching enabled, invalidatePattern(P) removes exactly the entries
\* whose key contains P as a substring: no such key is retrievable or stored
\* afterwards, and every other key keeps its value and expiry (or stays absent).
C2_InvalidatePatternExact ==
    [][ (enabled /\ lastOp'.op = "invalidatePattern")
        => \A k \in Keys :
             IF IsSubstring(lastOp'.key, k)
             THEN k \notin DOMAIN data' /\ ~Retrievable(k)'
             ELSE /\ (k \in DOMAIN data) = (k \in DOMAIN data')
                  /\ k \in DOMAIN data => data'[k] = data[k] ]_vars

\* An invalidatePattern that removed one key and left the other, which does
\* not contain the pattern, in the store.
C2_Witness ==
    /\ enabled
    /\ lastOp.op = "invalidatePattern"
    /\ lastOp.removed = 1
    /\ \E k \in DOMAIN data : ~IsSubstring(lastOp.key, k)

\* C3: with caching disabled the store is empty in every reachable state,
\* set returns false, get returns undefined and del returns 0.
C3_DisabledIsEmpty ==
    ~enabled =>
        /\ DOMAIN data = {}
        /\ \A k \in Keys : ~Retrievable(k)
        /\ lastOp.op = "set" => lastOp.res = FALSE
        /\ lastOp.op = "get" => lastOp.res = Undefined
        /\ lastOp.op = "del" => lastOp.res = 0

\* A set made while caching is disabled.
C3_Witness == ~enabled /\ lastOp.op = "set" /\ lastOp.val = 1 /\ nGet > 0

\* C4: with caching enabled, set returns true; get of a key that no set has
\* stored returns undefined; and a get of K that directly follows set(K, V)
\* returns V, whatever K held before.
C4_SetThenGet ==
    [][ enabled =>
          /\ lastOp'.op = "set" => lastOp'.res = TRUE
          /\ (lastOp'.op = "get" /\ lastOp'.key \notin DOMAIN lastSet)
                => lastOp'.res = Undefined
          /\ (lastOp.op = "set" /\ lastOp'.op = "get" /\ lastOp'.key = lastOp.key)
                => lastOp'.res = lastOp.val ]_vars

\* A get that returned the value a set stored at this very instant.
C4_Witness ==
    /\ enabled
    /\ lastOp.op = "get"
    /\ lastOp.res \in Values
    /\ lastOp.key \in DOMAIN lastSet
    /\ lastSet[lastOp.key].at = now

\* C5 as claimed: once T seconds have elapsed since set(K, V, T), with K not
\* set again, get(K) returns undefined.
C5_AbsentOnceTtlElapsed ==
    [][ (enabled /\ lastOp'.op = "get" /\ lastOp'.key \in DOMAIN lastSet
         /\ now >= lastSet[lastOp'.key].at + lastSet[lastOp'.key].ttl)
        => lastOp'.res = Undefined ]_vars

\* C5, amended: for a TTL T > 0, get(K) returns undefined once more than T
\* seconds have elapsed since the set, and still returns the value up to and
\* at T seconds; with a TTL of 0 the entry never expires; and get never
\* returns an entry whose expiry timestamp has passed.
C5_AbsentAfterTtl ==
    [][ (enabled /\ lastOp'.op = "get" /\ lastOp'.key \in DOMAIN lastSet)
        => LET k == lastOp'.key
               T == lastSet[k].ttl
               elapsed == now - lastSet[k].at
           IN /\ (T > 0 /\ elapsed > T) => lastOp'.res = Undefined
              /\ (T = 0 \/ elapsed <= T) => lastOp'.res = data[k].v
              /\ lastOp'.res # Undefined => (data[k].t = 0 \/ data[k].t >= now) ]_vars

\* A get that found the entry expired and removed it.
C5_Witness ==
    /\ enabled
    /\ lastOp.op = "get"
    /\ lastOp.res = Undefined
    /\ lastOp.removed = 1

\* C6: after flush the store holds no entry and no key is retrievable.
C6_FlushEmpties ==
    lastOp.op = "flush" => (DOMAIN data = {} /\ \A k \in Keys : ~Retrievable(k))

\* A flush that removed two entries.
C6_Witness == lastOp.op = "flush" /\ lastOp.removed = 2

\* C7: del(K) returns the number of entries it removed: 1 when K is stored
\* and unexpired, 0 when K is not stored; afterwards K is absent and every
\* other key is as it was.
C7_DelOne ==
    [][ \A K \in Keys : (lastOp'.op = "del" /\ lastOp'.key = K) =>
           /\ lastOp'.res = Cardinality(DOMAIN data) - Cardinality(DOMAIN data')
           /\ lastOp'.res \in {0, 1}
           /\ Retrievable(K) => lastOp'.res = 1
           /\ K \notin DOMAIN data => lastOp'.res = 0
           /\ K \notin DOMAIN data' /\ ~Retrievable(K)'
           /\ \A k \in Keys \ {K} :
                /\ (k \in DOMAIN data) = (k \in DOMAIN data')
                /\ k \in DOMAIN data => data'[k] = data[k] ]_vars

\* A del that removed its key and left another entry in the store.
C7_Witness == lastOp.op = "del" /\ lastOp.res = 1 /\ DOMAIN data # {}

\* C8 as claimed: hits + misses is the number of get calls made, hits the
\* number that returned a value, misses the number that returned undefined,
\* and set, del, flush and invalidatePattern change neither counter.
C8_CountersCountEveryGet ==
    [][ /\ cache_getStats'.hits + cache_getStats'.misses = nGet'
        /\ cache_getStats'.hits = nRet'
        /\ cache_getStats'.misses = nGet' - nRet'
        /\ lastOp'.op \in {"set", "del", "flush", "invalidatePattern"}
              => (cache_getStats'.hits = cache_getStats.hits
                  /\ cache_getStats'.misses = cache_getStats.misses) ]_vars

\* C8, amended: with caching enabled each get adds one to hits when it
\* returns a stored entry and one to misses when it returns undefined, and
\* leaves the other counter alone; with caching disabled get changes neither;
\* set, del and invalidatePattern change neither; flush, with caching
\* enabled, resets both to 0.
C8_CountersPerGet ==
    [][ LET h == cache_getStats.hits
            m == cache_getStats.misses
            h2 == cache_getStats'.hits
            m2 == cache_getStats'.misses
        IN /\ (lastOp'.op = "get" /\ enabled /\ lastOp'.res # Undefined)
                => (h2 = h + 1 /\ m2 = m)
           /\ (lastOp'.op = "get" /\ enabled /\ lastOp'.res = Undefined)
                => (h2 = h /\ m2 = m + 1)
           /\ (lastOp'.op = "get" /\ ~enabled) => (h2 = h /\ m2 = m)
           /\ lastOp'.op \in {"set", "del", "invalidatePattern"} => (h2 = h /\ m2 = m)
           /\ (lastOp'.op = "flush" /\ enabled) => (h2 = 0 /\ m2 = 0) ]_vars

\* A get made after both a hit and a miss were counted.
C8_Witness ==
    /\ enabled
    /\ lastOp.op = "get"
    /\ cache_getStats.hits >= 1
    /\ cache_getStats.misses >= 1

\* C9: a client get with caching in use issues an HTTP request only when the
\* cache holds no unexpired entry under its key; when it holds one, the call
\* returns the stored value without a request; and on a miss the response is
\* stored under the key when the call returns.
C9_CacheAside ==
    (enabled /\ lastCall.method = "get" /\ lastCall.useCache) =>
        /\ lastCall.entry # Undefined =>
              /\ ~lastCall.http
              /\ lastCall.status = "returned"
              /\ lastCall.value = lastCall.entry
        /\ (lastCall.http /\ lastCall.status = "returned") =>
              /\ lastCall.key \in DOMAIN data
              /\ data[lastCall.key].v = lastCall.value

\* C10: when two client gets of the same key were in flight together and
\* both wrote, the store holds for the key the response of the second writer.
C10_LastWriterWins ==
    (lastCall.method = "get" /\ lastCall.status = "returned" /\ lastCall.raced # Undefined)
        => /\ lastCall.key \in DOMAIN data
           /\ data[lastCall.key].v = lastCall.value
           /\ Cardinality({ k \in DOMAIN data : k = lastCall.key }) = 1

\* Both calls missed, both requested; the second wrote a response that
\* differs from the first's, and the store holds the second's.
C10_Witness ==
    /\ lastCall.method = "get"
    /\ lastCall.status = "returned"
    /\ lastCall.raced # Undefined
    /\ lastCall.raced # lastCall.value
    /\ data[lastCall.key].v = lastCall.value

\* C11: once a write of the posts family has returned to its caller (and so
\* has invalidated the cache), no cached read of the posts family holds a
\* value the site produced before it applied that write.
C11_NoStaleRepopulation ==
    \A r \in PostsReads :
        LET k == cacheKey(r.endpoint, r.params) IN
        Retrievable(k) => data[k].v >= acked

\* C12: when the HTTP request of a client get, post, put or delete fails, the
\* cache store is left as it was (no entry stored, none removed, every cached
\* read as retrievable as before), and the call rejects with an Error whose
\* message is "WordPress API Error (status): detail" for an answer with an
\* error status (detail being the body's message, else its error, else the
\* axios message), the "No response" message for a request left unanswered,
\* and "Request failed: " with the axios message otherwise.
C12_FailureLeavesStore ==
    [][ lastCall'.cause # NoFailure =>
          LET e == lastCall'.cause
              thrown == lastCall'.err
              answer == e.response.data
          IN /\ data' = data
             /\ \A r \in Reads :
                  LET k == cacheKey(r.endpoint, r.params) IN
                  Retrievable(k)' = Retrievable(k)
             /\ lastCall'.method \in WriteMethods \cup {"get"}
             /\ lastCall'.status = "threw"
             /\ thrown.name = "Error"
             /\ e.response.status # 0 =>
                  /\ thrown.prefix = "WordPress API Error"
                  /\ thrown.status = e.response.status
                  /\ thrown.detail = IF answer.message # "" THEN answer.message
                                     ELSE IF answer.error # "" THEN answer.error
                                     ELSE e.message
             /\ (e.response.status = 0 /\ e.request) =>
                  /\ thrown.prefix = "No response from WordPress API. Check your connection and URL."
                  /\ thrown.detail = ""
             /\ (e.response.status = 0 /\ ~e.request) =>
                  /\ thrown.prefix = "Request failed"
                  /\ thrown.detail = e.message ]_vars

\* A put that failed with a 500 answer whose body has only an error member,
\* while the store held a retrievable entry.
C12_Witness ==
    /\ lastCall.status = "threw"
    /\ lastCall.method = "put"
    /\ lastCall.cause.response.status = 500
    /\ lastCall.err.detail = "Server Error"
    /\ \E k \in DOMAIN data : Retrievable(k)

\* C13: the tool-call handler never rejects; a tool's handler is invoked only
\* when a tool of the requested name exists and its input schema accepted
\* the arguments, and then with the validated arguments; and an unknown tool
\* name, a validation failure or an exception thrown by the handler each
\* give a result with isError = true whose text names the error message and
\* the requested tool.
C13_ToolCallNeverRejects ==
    LET given == IF toolCall.hasArgs THEN toolCall.args ELSE EmptyObject
        known == \E i \in DOMAIN tools : tools[i].name = toolCall.name
        reports(message) ==
            /\ reply.state = "fulfilled"
            /\ reply.isError
            /\ IsSubstring(message, reply.text)
            /\ IsSubstring(<<toolCall.name>>, reply.text)
    IN
    /\ reply.state # "rejected"
    /\ invoked.called =>
          /\ known
          /\ tools[invoked.tool].name = toolCall.name
          /\ LET shape == tools[invoked.tool].inputSchema IN
             /\ shape.required \subseteq DOMAIN given
             /\ DOMAIN invoked.args = (DOMAIN given) \cap (shape.required \cup shape.optional)
             /\ \A k \in DOMAIN invoked.args : invoked.args[k] = given[k]
    /\ (toolCall.pc = "settled" /\ ~known) =>
          (~invoked.called /\ reports(<<"Unknown tool: ", toolCall.name>>))
    /\ (toolCall.pc = "settled" /\ known /\ ~invoked.called) => reports(<<"Required">>)
    /\ (toolCall.pc = "settled" /\ toolCall.thrown # NoThrown) =>
          reports(toolCall.thrown.message)

=============================================================================
